---- MODULE Spec2Model ----
(***************************************************************************)
(* Kirchhoff-graph circuit analysis of BCSThesis/Source/GRacC.py:          *)
(* circuit_parser, Eliminated_Edges, graph_list, find_fundamental_cycles,  *)
(* get_edge_index, find_kg_edges_weights, find_kg_edges_weights_RC,        *)
(* seperate_const_variable_cycle_and_loop and circuit_type, together with  *)
(* the parts of networkx / numpy they rest on (adjacency insertion order,  *)
(* edge iteration order, Kruskal, edge_dfs, find_cycle, index wrapping,    *)
(* np.delete).                                                             *)
(* Python containers are 0-indexed; matrices are functions over 0..n-1,    *)
(* Python lists are sequences.                                             *)
(***************************************************************************)
EXTENDS Integers, Sequences, FiniteSets, TLC

\* Largest node count of an input circuit.
MaxNodes == 4
\* Largest number of branch records of a well-formed input circuit.
MaxRecords == 5
\* Largest node count and record count of an unchecked (possibly malformed) input.
MaxRawNodes == 3
MaxRawRecords == 2

VARIABLES
    circ,       \* the circuit description handed to the analysis: [n, recs]
    circ3,      \* the contents of circuit3.txt, parsed into the module global kg3
    pc,         \* position of the run
    kg,         \* the graph passed as the argument kg
    kg3,        \* the module-level graph kg3
    part,       \* result of seperate_const_variable_cycle_and_loop(kg)
    kgmstam,    \* adjacency matrix of the spanning tree
    kgam,       \* adjacency matrix of kg
    eled,       \* eliminated (co-tree) edges
    gl,         \* trial graphs, one per eliminated edge
    fcl,        \* fundamental cycles
    A,          \* coefficient matrix
    B,          \* right-hand side
    i,          \* row counter of find_kg_edges_weights
    nodeAt,     \* position of the KCL loop in kg.nodes
    rowKind,    \* for each row index i went through, what was written there:
                \* "KVL", "KCL", or "empty" when the pass wrote nothing
    sol,        \* outcome of the solver that was called
    ctype,      \* result of circuit_type(kg)
    part3,      \* find_kg_edges_weights_RC: seperate_const_variable_cycle_and_loop(kg3)
    Arows,      \* find_kg_edges_weights_RC: A after the loop over e
    Brows,      \* find_kg_edges_weights_RC: B after the loop over e
    Acols       \* find_kg_edges_weights_RC: A after the loop over a, [ncols, rows]

vars == <<circ, circ3, pc, kg, kg3, part, kgmstam, kgam, eled, gl, fcl,
          A, B, i, nodeAt, rowKind, sol, ctype, part3, Arows, Brows, Acols>>

None == "None"

----------------------------------------------------------------------------
(* Generic helpers for Python lists and dicts.                              *)

SeqContains(s, x) == \E k \in 1..Len(s) : s[k] = x

AppendNew(s, x) == IF SeqContains(s, x) THEN s ELSE Append(s, x)

ZeroMatrix(n) == [r \in 0..(n-1) |-> [c \in 0..(n-1) |-> 0]]

\* dict[key] = val : an existing key keeps its position, a new key goes last.
DictSet(d, key, val) ==
    IF \E k \in 1..Len(d) : d[k].key = key
    THEN [k \in 1..Len(d) |-> IF d[k].key = key THEN [key |-> key, val |-> val] ELSE d[k]]
    ELSE Append(d, [key |-> key, val |-> val])

----------------------------------------------------------------------------
(* networkx Graph: nodes 0..n-1 in order, adj[u] the neighbours of u in     *)
(* insertion order, data[{u,v}] the attribute dict shared by both          *)
(* directions of an edge.                                                  *)

NoAttr(w) == [has |-> FALSE, weight |-> w, resistor |-> 0, battery |-> 0,
              capacitor |-> 0, self |-> 0, suggested_dir |-> <<0, 0>>]

EmptyGraph(n) == [n |-> n, adj |-> [u \in 0..(n-1) |-> <<>>], data |-> <<>>]

HasEdge(G, u, v) == u \in 0..(G.n-1) /\ SeqContains(G.adj[u], v)

EdgeData(G, u, v) == G.data[{u, v}]

\* Graph.add_edge(u, v, weight=w)
AddEdge(G, u, v, w) ==
    LET adj1 == [G.adj EXCEPT ![u] = AppendNew(@, v)]
        adj2 == [adj1 EXCEPT ![v] = AppendNew(@, u)]
        old  == IF {u, v} \in DOMAIN G.data THEN G.data[{u, v}] ELSE NoAttr(w)
        new  == [old EXCEPT !.weight = w]
    IN  [n |-> G.n, adj |-> adj2,
         data |-> [e \in (DOMAIN G.data) \cup {{u, v}} |->
                      IF e = {u, v} THEN new ELSE G.data[e]]]

\* from_numpy_array: every nonzero cell, row by row, becomes add_edge(u, v).
RECURSIVE FromCells(_, _, _)
FromCells(G, am, k) ==
    IF k >= G.n * G.n THEN G
    ELSE LET u == k \div G.n
             v == k % G.n
         IN  FromCells(IF am[u][v] # 0 THEN AddEdge(G, u, v, am[u][v]) ELSE G, am, k + 1)

from_pandas_adjacency(am, n) == FromCells(EmptyGraph(n), am, 0)

\* nx.set_edge_attributes(G, values): a key that is no edge of G is skipped.
RECURSIVE set_edge_attributes(_, _, _)
set_edge_attributes(G, values, k) ==
    IF k > Len(values) THEN G
    ELSE LET u == values[k].key[1]
             v == values[k].key[2]
             d == values[k].val
             G2 == IF HasEdge(G, u, v)
                   THEN [G EXCEPT !.data[{u, v}] =
                            [d EXCEPT !.weight = G.data[{u, v}].weight]]
                   ELSE G
         IN  set_edge_attributes(G2, values, k + 1)

\* G.edges(): for each node in order, each neighbour not yet finished.
RECURSIVE EdgesFrom(_, _, _)
EdgesFrom(G, u, k) ==
    IF u >= G.n THEN <<>>
    ELSE IF k > Len(G.adj[u]) THEN EdgesFrom(G, u + 1, 1)
    ELSE IF G.adj[u][k] >= u
         THEN <<(<<u, G.adj[u][k]>>)>> \o EdgesFrom(G, u, k + 1)
         ELSE EdgesFrom(G, u, k + 1)

Edges(G) == EdgesFrom(G, 0, 1)

number_of_edges(G) == Len(Edges(G))

\* nx.to_numpy_array(G).astype(int)
to_numpy_array(G) ==
    [r \in 0..(G.n-1) |-> [c \in 0..(G.n-1) |->
        IF SeqContains(G.adj[r], c) THEN G.data[{r, c}].weight ELSE 0]]

----------------------------------------------------------------------------
(* circuit_parser                                                           *)

\* numpy index resolution along an axis of length n.
IndexInBounds(k, n) == k >= -n /\ k < n
NumpyIndex(k, n) == IF k < 0 THEN k + n ELSE k

AttOfEdge(r) == [has |-> TRUE, weight |-> 1, resistor |-> r.resistor,
                 battery |-> r.battery, capacitor |-> r.capacitor,
                 self |-> r.self, suggested_dir |-> <<r.org, r.dst>>]

RECURSIVE ParseLines(_, _, _, _)
ParseLines(n, recs, k, st) ==
    IF k > Len(recs) THEN st
    ELSE LET xmat == recs[k].org
             ymat == recs[k].dst
         IN  IF ~(IndexInBounds(xmat, n) /\ IndexInBounds(ymat, n))
             THEN [st EXCEPT !.err = "IndexError"]
             ELSE ParseLines(n, recs, k + 1,
                    [err |-> None,
                     kgam |-> [st.kgam EXCEPT
                                 ![NumpyIndex(xmat, n)][NumpyIndex(ymat, n)] = 1],
                     kgedgatt |-> DictSet(st.kgedgatt, <<xmat, ymat>>,
                                          AttOfEdge(recs[k]))])

circuit_parser(c) ==
    LET st == ParseLines(c.n, c.recs, 1,
                         [err |-> None, kgam |-> ZeroMatrix(c.n), kgedgatt |-> <<>>])
    IN  IF st.err # None THEN [err |-> st.err, graph |-> EmptyGraph(0)]
        ELSE [err |-> None,
              graph |-> set_edge_attributes(from_pandas_adjacency(st.kgam, c.n),
                                            st.kgedgatt, 1)]

----------------------------------------------------------------------------
(* nx.minimum_spanning_tree(kg): Kruskal over G.edges(data=True), stably    *)
(* sorted by the 'weight' attribute, joined through a union-find.          *)

RECURSIVE InsertByWeight(_, _, _)
InsertByWeight(G, sorted, e) ==
    IF sorted = <<>> THEN <<e>>
    ELSE LET last == sorted[Len(sorted)]
         IN  IF EdgeData(G, last[1], last[2]).weight <= EdgeData(G, e[1], e[2]).weight
             THEN Append(sorted, e)
             ELSE Append(InsertByWeight(G, SubSeq(sorted, 1, Len(sorted) - 1), e), last)

RECURSIVE SortedByWeight(_, _, _)
SortedByWeight(G, es, k) ==
    IF k = 0 THEN <<>>
    ELSE InsertByWeight(G, SortedByWeight(G, es, k - 1), es[k])

RECURSIVE KruskalRun(_, _, _, _)
KruskalRun(es, k, subtrees, T) ==
    IF k > Len(es) THEN T
    ELSE LET u == es[k][1]
             v == es[k][2]
         IN  IF subtrees[u] # subtrees[v]
             THEN KruskalRun(es, k + 1,
                     [x \in DOMAIN subtrees |->
                         IF subtrees[x] = subtrees[v] THEN subtrees[u] ELSE subtrees[x]],
                     Append(T, es[k]))
             ELSE KruskalRun(es, k + 1, subtrees, T)

kruskal_mst_edges(G) ==
    KruskalRun(SortedByWeight(G, Edges(G), Len(Edges(G))), 1,
               [x \in 0..(G.n-1) |-> x], <<>>)

RECURSIVE AddEdgesFrom(_, _, _, _)
AddEdgesFrom(T, G, es, k) ==
    IF k > Len(es) THEN T
    ELSE LET u == es[k][1]
             v == es[k][2]
             T1 == AddEdge(T, u, v, EdgeData(G, u, v).weight)
         IN  AddEdgesFrom([T1 EXCEPT !.data[{u, v}] = EdgeData(G, u, v)], G, es, k + 1)

minimum_spanning_tree(G) == AddEdgesFrom(EmptyGraph(G.n), G, kruskal_mst_edges(G), 1)

----------------------------------------------------------------------------
(* Eliminated_Edges, graph_list                                             *)

\* a plausible slip: the reversed pair is never looked up.
NeverListed(l, r, c) == FALSE

\* [j,i] in l
ReverseListed(l, r, c) == SeqContains(l, <<c, r>>)

RECURSIVE EliminatedFrom(_, _, _, _)
EliminatedFrom(am, mstam, k, l) ==
    LET n == Cardinality(DOMAIN am)
        r == k \div n
        c == k % n
    IN  IF k >= n * n THEN l
        ELSE IF am[r][c] = 1 /\ mstam[r][c] = 0 /\ ~ReverseListed(l, r, c)
             THEN EliminatedFrom(am, mstam, k + 1, Append(l, <<r, c>>))
             ELSE EliminatedFrom(am, mstam, k + 1, l)

Eliminated_Edges(am, mstam) == EliminatedFrom(am, mstam, 0, <<>>)

\* glam[k] after the first loop of graph_list: a copy of the spanning tree's
\* matrix with the k-th eliminated edge set in both directions.
TrialSharedBuffer(mstam, el, k) ==
    [r \in DOMAIN mstam |-> [c \in DOMAIN mstam |->
        IF \E j \in 1..k : {el[j][1], el[j][2]} = {r, c} THEN 1 ELSE mstam[r][c]]]

TrialMatrix(mstam, el, k) ==
    [mstam EXCEPT ![el[k][1]][el[k][2]] = 1, ![el[k][2]][el[k][1]] = 1]

graph_list(mstam, el) ==
    [k \in 1..Len(el) |->
        from_pandas_adjacency(TrialMatrix(mstam, el, k), Cardinality(DOMAIN mstam))]

----------------------------------------------------------------------------
(* nx.edge_dfs(G, source, orientation="ignore") on an undirected graph:    *)
(* the edges in the order the depth-first search yields them.              *)

RECURSIVE EdgeDfsRun(_, _, _, _)
EdgeDfsRun(G, stack, pos, visited_edges) ==
    IF stack = <<>> THEN <<>>
    ELSE LET current_node == stack[Len(stack)]
         IN  IF pos[current_node] >= Len(G.adj[current_node])
             THEN EdgeDfsRun(G, SubSeq(stack, 1, Len(stack) - 1), pos, visited_edges)
             ELSE LET nbr  == G.adj[current_node][pos[current_node] + 1]
                      pos1 == [pos EXCEPT ![current_node] = @ + 1]
                  IN  IF {current_node, nbr} \in visited_edges
                      THEN EdgeDfsRun(G, stack, pos1, visited_edges)
                      ELSE <<(<<current_node, nbr>>)>> \o
                           EdgeDfsRun(G, Append(stack, nbr), pos1,
                                      visited_edges \cup {{current_node, nbr}})

edge_dfs(G, source) == EdgeDfsRun(G, <<source>>, [x \in 0..(G.n-1) |-> 0], {})

(* nx.find_cycle(G, orientation="ignore")                                   *)

\* the backtracking loop: pop until the last kept edge ends at tail.
RECURSIVE PopUntil(_, _, _)
PopUntil(edges, active_nodes, tail) ==
    IF edges = <<>> THEN [edges |-> <<>>, active_nodes |-> {tail}]
    ELSE LET popped_head == edges[Len(edges)][2]
             rest   == SubSeq(edges, 1, Len(edges) - 1)
             active == active_nodes \ {popped_head}
         IN  IF rest # <<>> /\ rest[Len(rest)][2] = tail
             THEN [edges |-> rest, active_nodes |-> active]
             ELSE PopUntil(rest, active, tail)

\* the loop over the edges of one edge_dfs; previous_head is <<>> for None.
RECURSIVE ScanEdges(_, _, _, _, _, _, _)
ScanEdges(es, k, edges, seen, active_nodes, previous_head, explored) ==
    IF k > Len(es) THEN [cycle |-> <<>>, final_node |-> <<>>, seen |-> seen]
    ELSE LET tail == es[k][1]
             head == es[k][2]
         IN  IF head \in explored
             THEN ScanEdges(es, k + 1, edges, seen, active_nodes, previous_head, explored)
             ELSE LET p == IF previous_head # <<>> /\ tail # previous_head[1]
                           THEN PopUntil(edges, active_nodes, tail)
                           ELSE [edges |-> edges, active_nodes |-> active_nodes]
                      edges1 == Append(p.edges, es[k])
                  IN  IF head \in p.active_nodes
                      THEN [cycle |-> edges1, final_node |-> <<head>>, seen |-> seen]
                      ELSE ScanEdges(es, k + 1, edges1, seen \cup {head},
                                     p.active_nodes \cup {head}, <<head>>, explored)

\* cycle[i:] for the first i whose edge starts at final_node (the last i if none).
TrimCycle(cycle, final_node) ==
    LET starts == {k \in 1..Len(cycle) : cycle[k][1] = final_node}
        first  == IF starts = {} THEN Len(cycle)
                  ELSE CHOOSE k \in starts : \A j \in starts : k <= j
    IN  SubSeq(cycle, first, Len(cycle))

RECURSIVE FindCycleFrom(_, _, _)
FindCycleFrom(G, start_node, explored) ==
    IF start_node >= G.n THEN [err |-> "NetworkXNoCycle", cycle |-> <<>>]
    ELSE IF start_node \in explored THEN FindCycleFrom(G, start_node + 1, explored)
    ELSE LET r == ScanEdges(edge_dfs(G, start_node), 1, <<>>, {start_node},
                            {start_node}, <<>>, explored)
         IN  IF r.cycle # <<>>
             THEN [err |-> None, cycle |-> TrimCycle(r.cycle, r.final_node[1])]
             ELSE FindCycleFrom(G, start_node + 1, explored \cup r.seen)

find_cycle(G) == FindCycleFrom(G, 0, {})

RECURSIVE FundamentalFrom(_, _)
FundamentalFrom(graphs, k) ==
    IF k > Len(graphs) THEN <<>>
    ELSE LET c == find_cycle(graphs[k])
         IN  IF c.err = "NetworkXNoCycle" THEN FundamentalFrom(graphs, k + 1)
             ELSE <<c.cycle>> \o FundamentalFrom(graphs, k + 1)

find_fundamental_cycles(graphs) == FundamentalFrom(graphs, 1)

----------------------------------------------------------------------------
(* isstraight, get_edge_index                                               *)

isstraight(org, dst, suggested_dir) == suggested_dir[1] = org /\ suggested_dir[2] = dst

\* a plausible slip: only the pair as stored in kg.edges() is matched.
EdgeIndexOneWay(G, org, dst) ==
    LET es == Edges(G)
        hits == {k \in 1..Len(es) : es[k][1] = org /\ es[k][2] = dst}
    IN  IF hits = {} THEN <<>>
        ELSE <<(CHOOSE k \in hits : \A j \in hits : k <= j) - 1>>

\* <<k>> for the 0-based position of the branch in kg.edges(), <<>> for the
\* None the function falls through to.
get_edge_index(G, org, dst) ==
    LET es == Edges(G)
        hits == {k \in 1..Len(es) :
                    \/ es[k][1] = org /\ es[k][2] = dst
                    \/ es[k][2] = org /\ es[k][1] = dst}
    IN  IF hits = {} THEN <<>>
        ELSE <<(CHOOSE k \in hits : \A j \in hits : k <= j) - 1>>

\* row[cor] = val ; numpy reads the index None as a new axis and fills the row.
SetCell(row, cor, val) ==
    IF cor = <<>> THEN [c \in DOMAIN row |-> val] ELSE [row EXCEPT ![cor[1]] = val]

----------------------------------------------------------------------------
(* find_kg_edges_weights: the body of the KVL loop for one cycle and of    *)
(* the KCL loop for one node.                                              *)

\* a plausible slip: the reversed branch gets the sign of the straight one.
KvlResAlwaysNegative(straight, resistor) == -resistor

\* res = -resistor on a straight branch, +resistor on a reversed one
KvlRes(straight, resistor) == IF straight THEN -resistor ELSE resistor

\* volsum - battery on a straight branch, volsum + battery on a reversed one
KvlVolsum(volsum, straight, battery) ==
    IF straight THEN volsum - battery ELSE volsum + battery

\* a plausible slip: the loop over the nodes never breaks.
KclNeverBreaks(row, edges) == FALSE

\* if i == kg.number_of_edges(): break
KclBreak(row, edges) == row = edges

\* a plausible slip: a branch that ends at the node gets the sign of one that
\* starts there.
KclAlwaysLeaving(straight) == -1

\* A[i][cor] = -1 on a branch that starts at the node, 1 on one that ends there
KclCoefficient(straight) == IF straight THEN -1 ELSE 1

RECURSIVE KvlWalk(_, _, _, _)
KvlWalk(G, cycle, k, st) ==
    IF k > Len(cycle) THEN st
    ELSE LET org == cycle[k][1]
             dst == cycle[k][2]
             d   == EdgeData(G, org, dst)
             cor == get_edge_index(G, org, dst)
         IN  IF ~d.has THEN [st EXCEPT !.err = "KeyError"]
             ELSE LET straight == isstraight(org, dst, d.suggested_dir)
                  IN  KvlWalk(G, cycle, k + 1,
                         [err |-> None,
                          volsum |-> KvlVolsum(st.volsum, straight, d.battery),
                          row |-> SetCell(st.row, cor, KvlRes(straight, d.resistor))])

RECURSIVE KclWalk(_, _, _, _)
KclWalk(G, node, k, st) ==
    IF k > Len(G.adj[node]) THEN st
    ELSE LET nei == G.adj[node][k]
             d   == EdgeData(G, node, nei)
             cor == get_edge_index(G, node, nei)
         IN  IF ~d.has THEN [st EXCEPT !.err = "KeyError"]
             ELSE KclWalk(G, node, k + 1,
                     [err |-> None,
                      row |-> SetCell(st.row, cor,
                                 KclCoefficient(isstraight(node, nei, d.suggested_dir)))])

----------------------------------------------------------------------------
(* linalg.solve(A, B): the determinant decides whether a solution exists.  *)

RemoveAt(s, k) == SubSeq(s, 1, k - 1) \o SubSeq(s, k + 1, Len(s))

RECURSIVE DetOn(_, _, _)
RECURSIVE DetSum(_, _, _, _)
DetOn(M, rs, cs) == IF rs = <<>> THEN 1 ELSE DetSum(M, rs, cs, 1)
DetSum(M, rs, cs, k) ==
    IF k > Len(cs) THEN 0
    ELSE (IF M[rs[1]][cs[k]] = 0 THEN 0
          ELSE (IF k % 2 = 1 THEN 1 ELSE -1) * M[rs[1]][cs[k]]
               * DetOn(M, Tail(rs), RemoveAt(cs, k)))
         + DetSum(M, rs, cs, k + 1)

Det(M) ==
    LET n  == Cardinality(DOMAIN M)
        ix == [k \in 1..n |-> k - 1]
    IN  DetOn(M, ix, ix)

----------------------------------------------------------------------------
(* seperate_const_variable_cycle_and_loop                                   *)

RECURSIVE SeparateWalk(_, _, _, _)
SeparateWalk(G, cycle, k, st) ==
    IF k > Len(cycle) THEN st
    ELSE LET org == cycle[k][1]
             dst == cycle[k][2]
             d   == EdgeData(G, org, dst)
             t   == IF isstraight(org, dst, d.suggested_dir)
                    THEN <<org, dst>> ELSE <<dst, org>>
         IN  IF ~d.has THEN [st EXCEPT !.err = "KeyError"]
             ELSE IF d.capacitor = 0
             THEN SeparateWalk(G, cycle, k + 1,
                     [st EXCEPT !.const_weight_edge = AppendNew(@, t)])
             ELSE SeparateWalk(G, cycle, k + 1,
                     [st EXCEPT !.varicyc = TRUE,
                                !.variable_weight_edge = AppendNew(@, t)])

\* a plausible slip: varicyc is set once before the loop over the cycles.
CarriedCycleFlag(st) == st

\* varicyc = False at the start of every cycle
NewCycleFlag(st) == [st EXCEPT !.varicyc = FALSE]

RECURSIVE SeparateCycles(_, _, _, _)
SeparateCycles(G, cycles, k, st) ==
    IF k > Len(cycles) \/ st.err # None THEN st
    ELSE LET w == SeparateWalk(G, cycles[k], 1, NewCycleFlag(st))
         IN  IF w.err # None THEN w
             ELSE IF w.varicyc
             THEN SeparateCycles(G, cycles, k + 1,
                     [w EXCEPT !.variable_weight_cycle = Append(@, cycles[k]),
                               !.variable_weight_cycle_index = Append(@, k - 1)])
             ELSE SeparateCycles(G, cycles, k + 1,
                     [w EXCEPT !.const_weight_cycle = Append(@, cycles[k])])

EmptyPartition ==
    [err |-> None, varicyc |-> FALSE,
     variable_weight_edge |-> <<>>, const_weight_edge |-> <<>>,
     const_weight_cycle |-> <<>>, variable_weight_cycle |-> <<>>,
     variable_weight_cycle_index |-> <<>>]

FundamentalCyclesOf(G) ==
    LET mstam == to_numpy_array(minimum_spanning_tree(G))
    IN  find_fundamental_cycles(
            graph_list(mstam, Eliminated_Edges(to_numpy_array(G), mstam)))

seperate_const_variable_cycle_and_loop(G) ==
    SeparateCycles(G, FundamentalCyclesOf(G), 1, EmptyPartition)

----------------------------------------------------------------------------
(* find_kg_edges_weights_RC, lines 268-286: the rows and columns deleted   *)
(* from the assembled system.  Lines 227-267 are the statements of         *)
(* find_kg_edges_weights (142-182), so the system they assemble is A, B.   *)

SeqRange(s) == {s[k] : k \in 1..Len(s)}

\* np.delete(arr, obj, axis) along one axis: the entries at the indices in S
\* are dropped and the others keep their order, re-indexed from 0.
np_delete(f, S) ==
    LET keep == {x \in DOMAIN f : x \notin S}
    IN  [j \in 0..(Cardinality(keep) - 1) |->
            f[CHOOSE x \in keep : Cardinality({y \in keep : y < x}) = j]]

\* for index in e: A = np.delete(A, e, 0); B = np.delete(B, e, 0)
\* Every pass deletes the whole list e from what the pass before left.  An
\* index beyond the last row raises IndexError (numpy >= 1.19) or is ignored
\* with a warning (older numpy): ignored says which.
RECURSIVE DeleteRowPasses(_, _, _, _)
DeleteRowPasses(st, e, pass, ignored) ==
    IF pass > Len(e) \/ st.err # None THEN st
    ELSE IF ~ignored /\ \E x \in SeqRange(e) : x \notin DOMAIN st.A
    THEN [st EXCEPT !.err = "IndexError"]
    ELSE DeleteRowPasses([err |-> None,
                          A |-> np_delete(st.A, SeqRange(e)),
                          B |-> np_delete(st.B, SeqRange(e))],
                         e, pass + 1, ignored)

\* for n in range(len(a)): edin = get_edge_index(kg3, a[n][0], a[n][1]);
\* print(A[:, edin]); A = np.delete(A, edin, 1)
\* edin is a column of the full enumeration of kg3 and is applied to the A
\* the passes before have left; a column beyond the last raises IndexError
\* at the print, and np.delete rejects None.
RECURSIVE DeleteColumns(_, _, _, _)
DeleteColumns(st, G3, a, n) ==
    IF n > Len(a) \/ st.err # None THEN st
    ELSE LET edin == get_edge_index(G3, a[n][1], a[n][2])
         IN  IF edin = <<>> \/ edin[1] \notin 0..(st.ncols - 1)
             THEN [st EXCEPT !.err = "IndexError"]
             ELSE DeleteColumns(
                     [err |-> None, ncols |-> st.ncols - 1,
                      rows |-> [r \in DOMAIN st.rows |->
                                   np_delete(st.rows[r], {edin[1]})]],
                     G3, a, n + 1)

----------------------------------------------------------------------------
(* circuit_type: the attribute values are read from the module-level kg3.  *)

AttrValues(G, name) ==
    LET es == Edges(G)
    IN  {IF name = "self" THEN EdgeData(G, es[k][1], es[k][2]).self
                          ELSE EdgeData(G, es[k][1], es[k][2]).capacitor :
            k \in {j \in 1..Len(es) : EdgeData(G, es[j][1], es[j][2]).has}}

Classify(contain_self, contain_capacitor) ==
    IF ~contain_self /\ ~contain_capacitor THEN "Ordinary"
    ELSE IF ~contain_self /\ contain_capacitor THEN "RC"
    ELSE IF contain_self /\ ~contain_capacitor THEN "RL"
    ELSE "RLC"

circuit_type(G) ==
    Classify(\E sval \in AttrValues(kg3, "self") : sval # 0,
             \E cval \in AttrValues(kg3, "capacitor") : cval # 0)

----------------------------------------------------------------------------
(* Input circuits.                                                          *)

Pairs(n) == {p \in (0..(n-1)) \X (0..(n-1)) : p[1] < p[2]}

PairLess(p, q) == p[1] < q[1] \/ (p[1] = q[1] /\ p[2] < q[2])

RECURSIVE SortedPairs(_)
SortedPairs(S) ==
    IF S = {} THEN <<>>
    ELSE LET m == CHOOSE p \in S : \A q \in S \ {p} : PairLess(p, q)
         IN  <<m>> \o SortedPairs(S \ {m})

RECURSIVE Pow2(_)
Pow2(k) == IF k = 0 THEN 1 ELSE 2 * Pow2(k - 1)

Record(org, dst, r, v, c, l) ==
    [org |-> org, dst |-> dst, resistor |-> r, battery |-> v, capacitor |-> c, self |-> l]

\* One record per chosen node pair, in pair order; the k-th record carries
\* resistance k and source voltage 2^(k-1), is written org > dst where rev
\* says so, and carries the capacitance and inductance cap and ind give it.
Records(S, rev, cap, ind) ==
    LET ps == SortedPairs(S)
    IN  [k \in 1..Len(ps) |->
            Record(IF rev[ps[k]] THEN ps[k][2] ELSE ps[k][1],
                   IF rev[ps[k]] THEN ps[k][1] ELSE ps[k][2],
                   k, Pow2(k - 1), cap[ps[k]], ind[ps[k]])]

\* Simple graphs on up to MaxNodes nodes with up to MaxRecords branches, each
\* branch in either reference direction, resistive or capacitive.
NetworkCircuits ==
    UNION {UNION {{[n |-> n, recs |-> Records(S, rev, cap, [p \in S |-> 0])] :
                     rev \in [S -> BOOLEAN], cap \in [S -> {0, 1}]} :
                  S \in {T \in SUBSET Pairs(n) : Cardinality(T) <= MaxRecords}} :
           n \in 1..MaxNodes}

\* The triangle circuit: (0,1) 1 Ohm 6 V, (1,2) 1 Ohm, (2,0) 1 Ohm.
TriangleCircuit ==
    [n |-> 3, recs |-> <<Record(0, 1, 1, 6, 0, 0), Record(1, 2, 1, 0, 0, 0),
                         Record(2, 0, 1, 0, 0, 0)>>]

\* Chains 0-1-...-(n-1) whose branches carry any mix of capacitance and inductance.
ChainCircuits(maxn) ==
    UNION {{[n |-> n, recs |-> Records({p \in Pairs(n) : p[2] = p[1] + 1},
                                        [p \in Pairs(n) |-> FALSE], cap, ind)] :
               cap \in [Pairs(n) -> {0, 1}], ind \in [Pairs(n) -> {0, 1}]} :
           n \in 2..maxn}

\* The triangle and the four-node circuit with five branches, every branch
\* resistive or capacitive.
LoopCircuits ==
    UNION {{[n |-> n, recs |-> Records(S, [p \in S |-> FALSE], cap, [p \in S |-> 0])] :
               cap \in [S -> {0, 1}]} :
           <<n, S>> \in {<<3, Pairs(3)>>, <<4, Pairs(4) \ {<<0, 3>>}>>}}

\* Unchecked record lists: node fields from below -n up to n, any order,
\* repeated pairs allowed.
RawRecordLists(n) ==
    LET idx == (0 - n - 1)..n
        ends == {p \in idx \X idx : p[1] # p[2]}
    IN  UNION {[1..len -> ends] : len \in 0..MaxRawRecords}

RawCircuits ==
    UNION {{[n |-> n, recs |-> [k \in DOMAIN l |->
                                   Record(l[k][1], l[k][2], k, Pow2(k - 1), 0, 0)]] :
               l \in RawRecordLists(n)} :
           n \in 1..MaxRawNodes}

----------------------------------------------------------------------------
(* The run: the module is loaded (kg3 is parsed), a circuit is parsed into *)
(* kg, and seperate_const_variable_cycle_and_loop(kg), then either         *)
(* find_kg_edges_weights(kg) and circuit_type(kg), or                      *)
(* find_kg_edges_weights_RC(kg), are called.  The two solvers assemble the *)
(* same A and B with the same statements and part ways after the KCL loop. *)

InitRun ==
    /\ pc = "import"
    /\ kg = EmptyGraph(0)
    /\ kg3 = EmptyGraph(0)
    /\ part = EmptyPartition
    /\ kgmstam = <<>>
    /\ kgam = <<>>
    /\ eled = <<>>
    /\ gl = <<>>
    /\ fcl = <<>>
    /\ A = <<>>
    /\ B = <<>>
    /\ i = 0
    /\ nodeAt = 0
    /\ rowKind = <<>>
    /\ sol = "none"
    /\ ctype = "none"
    /\ part3 = EmptyPartition
    /\ Arows = <<>>
    /\ Brows = <<>>
    /\ Acols = [ncols |-> 0, rows |-> <<>>]

Init ==
    /\ \/ circ \in NetworkCircuits /\ circ3 = circ
       \/ circ = TriangleCircuit /\ circ3 = circ
       \/ circ \in RawCircuits /\ circ3 = circ
       \/ circ \in ChainCircuits(3) /\ circ3 \in ChainCircuits(2) \cup LoopCircuits
    /\ InitRun

edge_number == number_of_edges(kg)

\* kg3 = circuit_parser('circuit3.txt')
LoadModule ==
    /\ pc = "import"
    /\ LET r == circuit_parser(circ3)
       IN  /\ kg3' = r.graph
           /\ pc' = IF r.err # None THEN r.err ELSE "parse"
    /\ UNCHANGED <<part3, Arows, Brows, Acols,
                   circ, circ3, kg, part, kgmstam, kgam, eled, gl, fcl, A, B, i,
                   nodeAt, rowKind, sol, ctype>>

\* kg = circuit_parser(...)
CircuitParser ==
    /\ pc = "parse"
    /\ LET r == circuit_parser(circ)
       IN  /\ kg' = r.graph
           /\ pc' = IF r.err # None THEN r.err ELSE "separate"
    /\ UNCHANGED <<part3, Arows, Brows, Acols,
                   circ, circ3, kg3, part, kgmstam, kgam, eled, gl, fcl, A, B, i,
                   nodeAt, rowKind, sol, ctype>>

\* a, b, c, d, e = seperate_const_variable_cycle_and_loop(kg)
Separate ==
    /\ pc = "separate"
    /\ LET r == seperate_const_variable_cycle_and_loop(kg)
       IN  /\ part' = IF r.err # None THEN EmptyPartition ELSE r
           /\ pc' = IF r.err # None THEN r.err ELSE "mst"
    /\ UNCHANGED <<part3, Arows, Brows, Acols,
                   circ, circ3, kg, kg3, kgmstam, kgam, eled, gl, fcl, A, B, i,
                   nodeAt, rowKind, sol, ctype>>

\* find_kg_edges_weights(kg), lines 142-144
SpanningTree ==
    /\ pc = "mst"
    /\ kgmstam' = to_numpy_array(minimum_spanning_tree(kg))
    /\ kgam' = to_numpy_array(kg)
    /\ pc' = "eled"
    /\ UNCHANGED <<part3, Arows, Brows, Acols,
                   circ, circ3, kg, kg3, part, eled, gl, fcl, A, B, i,
                   nodeAt, rowKind, sol, ctype>>

EliminatedEdges ==
    /\ pc = "eled"
    /\ eled' = Eliminated_Edges(kgam, kgmstam)
    /\ pc' = "gl"
    /\ UNCHANGED <<part3, Arows, Brows, Acols,
                   circ, circ3, kg, kg3, part, kgmstam, kgam, gl, fcl, A, B, i,
                   nodeAt, rowKind, sol, ctype>>

GraphList ==
    /\ pc = "gl"
    /\ gl' = graph_list(kgmstam, eled)
    /\ pc' = "fcl"
    /\ UNCHANGED <<part3, Arows, Brows, Acols,
                   circ, circ3, kg, kg3, part, kgmstam, kgam, eled, fcl, A, B, i,
                   nodeAt, rowKind, sol, ctype>>

\* lines 147-151: the cycles, then A and B zeroed and i = 0
FindFundamentalCycles ==
    /\ pc = "fcl"
    /\ fcl' = find_fundamental_cycles(gl)
    /\ A' = ZeroMatrix(edge_number)
    /\ B' = [r \in 0..(edge_number - 1) |-> 0]
    /\ i' = 0
    /\ nodeAt' = 0
    /\ pc' = IF Len(fcl') > 0 THEN "kvl" ELSE "kcl"
    /\ UNCHANGED <<part3, Arows, Brows, Acols,
                   circ, circ3, kg, kg3, part, kgmstam, kgam, eled, gl,
                   rowKind, sol, ctype>>

\* lines 152-170, one pass of the loop over fcl
KvlRow ==
    /\ pc = "kvl"
    /\ IF i \notin DOMAIN A
       THEN /\ pc' = "IndexError"
            /\ UNCHANGED <<A, B, i, rowKind>>
       ELSE LET w == KvlWalk(kg, fcl[i + 1], 1,
                             [err |-> None, volsum |-> 0, row |-> A[i]])
            IN  IF w.err # None
                THEN /\ pc' = w.err
                     /\ UNCHANGED <<A, B, i, rowKind>>
                ELSE /\ A' = [A EXCEPT ![i] = w.row]
                     /\ B' = [B EXCEPT ![i] = w.volsum]
                     /\ i' = i + 1
                     /\ rowKind' = Append(rowKind, "KVL")
                     /\ pc' = IF i + 1 < Len(fcl) THEN "kvl" ELSE "kcl"
    /\ UNCHANGED <<part3, Arows, Brows, Acols,
                   circ, circ3, kg, kg3, part, kgmstam, kgam, eled, gl, fcl,
                   nodeAt, sol, ctype>>

\* lines 171-182, one pass of the loop over kg.nodes
KclRow ==
    /\ pc = "kcl"
    /\ IF kg.adj[nodeAt] # <<>> /\ i \notin DOMAIN A
       THEN /\ pc' = "IndexError"
            /\ UNCHANGED <<A, i, nodeAt, rowKind>>
       ELSE LET w == KclWalk(kg, nodeAt, 1,
                             [err |-> None,
                              row |-> IF i \in DOMAIN A THEN A[i] ELSE <<>>])
            IN  IF w.err # None
                THEN /\ pc' = w.err
                     /\ UNCHANGED <<A, i, nodeAt, rowKind>>
                ELSE /\ A' = IF i \in DOMAIN A THEN [A EXCEPT ![i] = w.row] ELSE A
                     /\ i' = i + 1
                     /\ nodeAt' = nodeAt + 1
                     /\ rowKind' = Append(rowKind,
                                      IF kg.adj[nodeAt] # <<>> THEN "KCL" ELSE "empty")
                     /\ pc' = IF KclBreak(i + 1, edge_number) \/ nodeAt + 1 >= kg.n
                              THEN "solve" ELSE "kcl"
    /\ UNCHANGED <<part3, Arows, Brows, Acols,
                   circ, circ3, kg, kg3, part, kgmstam, kgam, eled, gl, fcl, B,
                   sol, ctype>>

\* line 183: a regular system is solved; on a singular one the LU
\* factorisation either meets a zero pivot (LinAlgError) or, through rounding,
\* does not and returns an inexact result.
Solve ==
    /\ pc = "solve"
    /\ IF edge_number > 0 /\ Det(A) # 0
       THEN sol' = "solved" /\ pc' = "classify"
       ELSE \/ sol' = "LinAlgError" /\ pc' = "LinAlgError"
            \/ sol' = "inexact" /\ pc' = "classify"
    /\ UNCHANGED <<part3, Arows, Brows, Acols,
                   circ, circ3, kg, kg3, part, kgmstam, kgam, eled, gl, fcl, A, B, i,
                   nodeAt, rowKind, ctype>>

\* find_kg_edges_weights_RC(kg), line 268, once lines 227-267 have assembled
\* A and B: the partition is taken of the module-level kg3.  An exception
\* raised in lines 268-286 ends the run at "rcraised" with its name in sol.
RcSeparate ==
    /\ pc = "solve"
    /\ part3' = seperate_const_variable_cycle_and_loop(kg3)
    /\ IF part3'.err # None
       THEN pc' = "rcraised" /\ sol' = part3'.err
       ELSE pc' = "rcrows" /\ sol' = sol
    /\ UNCHANGED <<Arows, Brows, Acols, circ, circ3, kg, kg3, part, kgmstam, kgam,
                   eled, gl, fcl, A, B, i, nodeAt, rowKind, ctype>>

\* lines 269-271
RcDeleteRows ==
    /\ pc = "rcrows"
    /\ \E ignored \in BOOLEAN :
          LET r == DeleteRowPasses([err |-> None, A |-> A, B |-> B],
                                   part3.variable_weight_cycle_index, 1, ignored)
          IN  IF r.err # None
              THEN pc' = "rcraised" /\ sol' = r.err /\ UNCHANGED <<Arows, Brows>>
              ELSE pc' = "rccols" /\ sol' = sol /\ Arows' = r.A /\ Brows' = r.B
    /\ UNCHANGED <<part3, Acols, circ, circ3, kg, kg3, part, kgmstam, kgam,
                   eled, gl, fcl, A, B, i, nodeAt, rowKind, ctype>>

\* lines 272-276
RcDeleteColumns ==
    /\ pc = "rccols"
    /\ LET r == DeleteColumns([err |-> None, ncols |-> edge_number, rows |-> Arows],
                              kg3, part3.variable_weight_edge, 1)
       IN  IF r.err # None
           THEN pc' = "rcraised" /\ sol' = r.err /\ UNCHANGED Acols
           ELSE /\ pc' = "rcsolve" /\ sol' = sol
                /\ Acols' = [ncols |-> r.ncols, rows |-> r.rows]
    /\ UNCHANGED <<part3, Arows, Brows, circ, circ3, kg, kg3, part, kgmstam, kgam,
                   eled, gl, fcl, A, B, i, nodeAt, rowKind, ctype>>

\* line 286: scipy's solve rejects a matrix that is not square with a
\* ValueError; a square one is treated as in find_kg_edges_weights.
RcSolve ==
    /\ pc = "rcsolve"
    /\ IF Cardinality(DOMAIN Acols.rows) # Acols.ncols
       THEN sol' = "ValueError" /\ pc' = "rcraised"
       ELSE IF Acols.ncols > 0 /\ Det(Acols.rows) # 0
       THEN sol' = "solved" /\ pc' = "rcdone"
       ELSE \/ sol' = "LinAlgError" /\ pc' = "rcraised"
            \/ sol' = "inexact" /\ pc' = "rcdone"
    /\ UNCHANGED <<part3, Arows, Brows, Acols, circ, circ3, kg, kg3, part, kgmstam,
                   kgam, eled, gl, fcl, A, B, i, nodeAt, rowKind, ctype>>

\* circuit_type(kg)
CircuitType ==
    /\ pc = "classify"
    /\ ctype' = circuit_type(kg)
    /\ pc' = "done"
    /\ UNCHANGED <<part3, Arows, Brows, Acols,
                   circ, circ3, kg, kg3, part, kgmstam, kgam, eled, gl, fcl, A, B, i,
                   nodeAt, rowKind, sol>>

Next ==
    \/ LoadModule
    \/ CircuitParser
    \/ Separate
    \/ SpanningTree
    \/ EliminatedEdges
    \/ GraphList
    \/ FindFundamentalCycles
    \/ KvlRow
    \/ KclRow
    \/ Solve
    \/ RcSeparate
    \/ RcDeleteRows
    \/ RcDeleteColumns
    \/ RcSolve
    \/ CircuitType

Spec == Init /\ [][Next]_vars

----------------------------------------------------------------------------
(* Properties.  The circuit is described through its input records, so     *)
(* that what the run built is compared with what was asked for.            *)

NodeCount == circ.n
BranchCount == Len(circ.recs)

InRange(c) == \A k \in 1..Len(c.recs) :
                 c.recs[k].org \in 0..(c.n - 1) /\ c.recs[k].dst \in 0..(c.n - 1)

BranchPair(r) == {r.org, r.dst}

NoDuplicatePair(c) == \A j, k \in 1..Len(c.recs) :
                         j # k => BranchPair(c.recs[j]) # BranchPair(c.recs[k])

\* a simple graph: nodes in range, no loops, no parallel branches
SimpleCircuit(c) ==
    /\ InRange(c)
    /\ NoDuplicatePair(c)
    /\ \A k \in 1..Len(c.recs) : c.recs[k].org # c.recs[k].dst

BranchPairs(c) == {BranchPair(c.recs[k]) : k \in 1..Len(c.recs)}

RECURSIVE ReachedFrom(_, _)
ReachedFrom(c, S) ==
    LET T == S \cup {v \in 0..(c.n - 1) : \E u \in S : {u, v} \in BranchPairs(c)}
    IN  IF T = S THEN S ELSE ReachedFrom(c, T)

ConnectedCircuit(c) == ReachedFrom(c, {0}) = 0..(c.n - 1)

ConnectedSimple == SimpleCircuit(circ) /\ ConnectedCircuit(circ)

\* positions of the run
AfterTree == {"eled", "gl", "fcl", "kvl", "kcl", "solve", "classify", "done", "LinAlgError"}
AfterEliminated == AfterTree \ {"eled"}
AfterCycles == AfterEliminated \ {"gl", "fcl"}
AfterKvl == AfterCycles \ {"kvl"}
Assembled == AfterKvl \ {"kcl"}

RowsOf(kind, count) == [k \in 1..count |-> kind]

\* C1: for a connected simple graph with N nodes and E branches the assembly
\* fills E - N + 1 KVL rows followed by N - 1 KCL rows, that is the rows
\* 0..E-1 and no row beyond them: no write falls outside A, and the rows
\* assembled so far are always a prefix of that layout.
C1_RowLayout ==
    ConnectedSimple =>
        /\ pc # "IndexError"
        /\ \A k \in 1..Len(rowKind) :
              rowKind[k] # "empty" =>
                 /\ k <= BranchCount
                 /\ rowKind[k] = IF k <= BranchCount - NodeCount + 1 THEN "KVL" ELSE "KCL"
        /\ pc \in AfterCycles => Len(fcl) = BranchCount - NodeCount + 1
        /\ pc \in Assembled =>
              /\ SubSeq(rowKind, 1, BranchCount) =
                    RowsOf("KVL", BranchCount - NodeCount + 1)
                    \o RowsOf("KCL", NodeCount - 1)
              /\ DOMAIN A = 0..(BranchCount - 1)

\* C1 witness: a connected graph with two fundamental cycles, fully assembled.
C1_Witness ==
    /\ ConnectedSimple
    /\ pc = "solve"
    /\ NodeCount = 4
    /\ BranchCount = 5
    /\ rowKind = <<"KVL", "KVL", "KCL", "KCL", "KCL">>

TreePairs == {e \in SUBSET (DOMAIN kgmstam) :
                 \E r, c \in e : e = {r, c} /\ kgmstam[r][c] = 1}

EliminatedPairs == {{eled[k][1], eled[k][2]} : k \in 1..Len(eled)}

CyclePairs(cycle) == {{cycle[k][1], cycle[k][2]} : k \in 1..Len(cycle)}

\* C2: for a connected graph there is one cycle per co-tree branch, in
\* co-tree order; the k-th trial graph is the spanning tree plus exactly the
\* k-th co-tree branch, and the k-th cycle runs through that branch and
\* otherwise through tree branches only.
C2_OneCyclePerCoTreeBranch ==
    (ConnectedSimple /\ pc \in AfterCycles) =>
        /\ Len(gl) = Len(eled)
        /\ Len(fcl) = Len(eled)
        /\ \A k \in 1..Len(eled) :
              /\ \A r, c \in 0..(NodeCount - 1) :
                    HasEdge(gl[k], r, c) <=>
                        (kgmstam[r][c] = 1 \/ {r, c} = {eled[k][1], eled[k][2]})
              /\ {eled[k][1], eled[k][2]} \in CyclePairs(fcl[k])
              /\ CyclePairs(fcl[k]) \ {{eled[k][1], eled[k][2]}} \subseteq TreePairs
              /\ Cardinality(CyclePairs(fcl[k])) = Len(fcl[k])

\* C2 witness: two co-tree branches, hence two trial graphs and two cycles.
C2_Witness ==
    /\ ConnectedSimple
    /\ pc = "kvl"
    /\ Len(eled) = 2
    /\ Len(fcl) = 2
    /\ fcl[1] # fcl[2]

\* C3: for a connected simple graph the tree branches and the eliminated
\* list partition the branches: N - 1 tree branches, E - N + 1 eliminated
\* entries, each eliminated branch listed once under one orientation, none
\* of them a tree branch, and together they are exactly the graph.
C3_TreeAndEliminatedPartition ==
    (ConnectedSimple /\ pc \in AfterEliminated) =>
        /\ Cardinality(TreePairs) = NodeCount - 1
        /\ Len(eled) = BranchCount - NodeCount + 1
        /\ Cardinality(EliminatedPairs) = Len(eled)
        /\ TreePairs \cap EliminatedPairs = {}
        /\ TreePairs \cup EliminatedPairs = BranchPairs(circ)
        /\ \A r, c \in 0..(NodeCount - 1) :
              kgam[r][c] = 1 <=> (kgmstam[r][c] = 1 \/ {r, c} \in EliminatedPairs)

\* C3 witness: three tree branches and two eliminated ones.
C3_Witness ==
    /\ ConnectedSimple
    /\ pc = "gl"
    /\ Cardinality(TreePairs) = 3
    /\ Len(eled) = 2

AfterSeparate == AfterTree \cup {"mst"}

Occurrences(l, x) == Cardinality({k \in 1..Len(l) : l[k] = x})

\* how often a branch is listed, under either orientation
ListedIn(l, r) == Occurrences(l, <<r.org, r.dst>>)
                  + (IF r.org = r.dst THEN 0 ELSE Occurrences(l, <<r.dst, r.org>>))

\* C4: after seperate_const_variable_cycle_and_loop(kg) on a connected graph
\* every branch is in exactly one of the two branch lists, const_weight_edge
\* when its capacitance is 0 and variable_weight_edge otherwise, listed once;
\* branches on no fundamental cycle included.
C4_EveryBranchInOneList ==
    (ConnectedSimple /\ pc \in AfterSeparate) =>
        \A k \in 1..BranchCount :
            LET r == circ.recs[k]
            IN  IF r.capacitor = 0
                THEN /\ ListedIn(part.const_weight_edge, r) = 1
                     /\ ListedIn(part.variable_weight_edge, r) = 0
                ELSE /\ ListedIn(part.variable_weight_edge, r) = 1
                     /\ ListedIn(part.const_weight_edge, r) = 0

\* what the branches of a circuit make it
ClassOf(c) ==
    Classify(\E k \in 1..Len(c.recs) : c.recs[k].self # 0,
             \E k \in 1..Len(c.recs) : c.recs[k].capacitor # 0)

\* C5: circuit_type(kg) is a function of the branches of its argument alone:
\* RLC, RL, RC or Ordinary by the presence of nonzero inductance and
\* capacitance among the branches of kg, whatever any other graph holds.
C5_ClassifiesItsArgument ==
    (SimpleCircuit(circ) /\ pc = "done") => ctype = ClassOf(circ)

RECURSIVE RowTimes(_, _, _)
RowTimes(row, x, c) ==
    IF c \notin DOMAIN row THEN 0 ELSE row[c] * x + RowTimes(row, x, c + 1)

\* C6: the triangle circuit yields one fundamental cycle and two KCL rows,
\* its 3x3 system is regular and solved by current 2 in every branch column,
\* the solve succeeds and the circuit is classified Ordinary.
C6_Triangle ==
    circ = TriangleCircuit =>
        /\ pc \in AfterCycles => Len(fcl) = 1
        /\ pc \in Assembled =>
              /\ rowKind = <<"KVL", "KCL", "KCL">>
              /\ DOMAIN A = 0..2
              /\ Det(A) # 0
              /\ \A r \in 0..2 : RowTimes(A[r], 2, 0) = B[r]
        /\ pc \in {"classify", "done"} => sol = "solved"
        /\ pc \notin {"LinAlgError", "KeyError", "IndexError"}
        /\ pc = "done" => ctype = "Ordinary"

\* C6 witness: the triangle has been assembled, solved and classified.
C6_Witness ==
    /\ circ = TriangleCircuit
    /\ pc = "done"
    /\ B = (0 :> -6 @@ 1 :> 0 @@ 2 :> 0)

\* C7: building the graph fails, and yields no graph, whenever a record
\* names a node index outside [0, nodeCount).
C7_OutOfRangeFails ==
    ~InRange(circ) => pc \in {"import", "parse", "IndexError"}

\* C8: on a graph that is not connected the spanning-tree step fails; the
\* run never goes on to the eliminated edges, the cycles or the rows.
C8_DisconnectedStops ==
    (SimpleCircuit(circ) /\ ~ConnectedCircuit(circ)) => pc \notin AfterTree

\* C9: one branch per record with the record's reference direction, and a
\* node pair declared twice (in either order) makes the construction fail
\* instead of keeping one record and dropping the other.
C9_DuplicatePairFails ==
    /\ (SimpleCircuit(circ) /\ pc \in AfterSeparate) =>
          /\ number_of_edges(kg) = BranchCount
          /\ \A k \in 1..BranchCount :
                /\ HasEdge(kg, circ.recs[k].org, circ.recs[k].dst)
                /\ EdgeData(kg, circ.recs[k].org, circ.recs[k].dst).suggested_dir
                      = <<circ.recs[k].org, circ.recs[k].dst>>
    /\ (InRange(circ) /\ ~NoDuplicatePair(circ)) =>
          pc \in {"import", "parse", "IndexError"}

ColumnOf(r) == get_edge_index(kg, r.org, r.dst)

Straight(cycle, r) == SeqContains(cycle, <<r.org, r.dst>>)
Reversed(cycle, r) == SeqContains(cycle, <<r.dst, r.org>>)

RECURSIVE SignedVoltage(_, _)
SignedVoltage(cycle, k) ==
    IF k > BranchCount THEN 0
    ELSE (IF Straight(cycle, circ.recs[k]) THEN 0 - circ.recs[k].battery
          ELSE IF Reversed(cycle, circ.recs[k]) THEN circ.recs[k].battery
          ELSE 0)
         + SignedVoltage(cycle, k + 1)

\* C10: every branch has one column, the same for both endpoint orders and
\* different from every other branch's; in the row of fundamental cycle r a
\* branch traversed in its reference direction has -resistance in its column,
\* one traversed against it +resistance, one not on the cycle 0; B[r] is the
\* sum of -sourceVoltage over the straight and +sourceVoltage over the
\* reversed branches of the cycle.
C10_KvlRows ==
    (ConnectedSimple /\ pc \in AfterCycles) =>
        /\ \A k \in 1..BranchCount :
              LET r == circ.recs[k]
              IN  /\ ColumnOf(r) # <<>>
                  /\ ColumnOf(r)[1] \in 0..(BranchCount - 1)
                  /\ get_edge_index(kg, r.dst, r.org) = ColumnOf(r)
                  /\ \A j \in 1..BranchCount : j # k => ColumnOf(circ.recs[j]) # ColumnOf(r)
        /\ \A row \in 0..(Len(fcl) - 1) :
              row < i =>
                 /\ \A k \in 1..BranchCount :
                       LET r == circ.recs[k]
                       IN  A[row][ColumnOf(r)[1]] =
                              IF Straight(fcl[row + 1], r) THEN 0 - r.resistor
                              ELSE IF Reversed(fcl[row + 1], r) THEN r.resistor
                              ELSE 0
                 /\ B[row] = SignedVoltage(fcl[row + 1], 1)

\* C10 witness: both KVL rows are written, and the first cycle runs through
\* one branch in its reference direction and through another against it.
C10_Witness ==
    /\ ConnectedSimple
    /\ pc = "kcl"
    /\ Len(fcl) = 2
    /\ i = 2
    /\ \E j, k \in 1..BranchCount :
          Straight(fcl[1], circ.recs[j]) /\ Reversed(fcl[1], circ.recs[k])

\* C11: on a connected circuit the rows after the KVL rows are the complete
\* equations of the first N - 1 nodes in node order: in the row of node n the
\* column of a branch holds -1 if the branch's reference direction starts at
\* n, +1 if it ends at n and 0 if the branch does not touch n, and B is 0
\* there; the last node gets no row, and the rows fill the matrix exactly.
C11_KclRows ==
    (ConnectedSimple /\ pc \in AfterKvl) =>
        /\ \A node \in 0..(NodeCount - 2) :
              (pc \in Assembled \/ node < nodeAt) =>
                 /\ \A k \in 1..BranchCount :
                       LET r == circ.recs[k]
                       IN  A[Len(fcl) + node][ColumnOf(r)[1]] =
                              IF r.org = node THEN -1
                              ELSE IF r.dst = node THEN 1
                              ELSE 0
                 /\ B[Len(fcl) + node] = 0
        /\ pc \in Assembled =>
              /\ Len(fcl) + (NodeCount - 1) = BranchCount
              /\ nodeAt = IF NodeCount = 1 THEN 1 ELSE NodeCount - 1

\* C11 witness: a four-node circuit is assembled, and the second node has a
\* branch that starts at it and a branch that ends at it.
C11_Witness ==
    /\ ConnectedSimple
    /\ pc = "solve"
    /\ NodeCount = 4
    /\ nodeAt = 3
    /\ \E j, k \in 1..BranchCount :
          /\ circ.recs[j].org = 1 /\ A[Len(fcl) + 1][ColumnOf(circ.recs[j])[1]] = -1
          /\ circ.recs[k].dst = 1 /\ A[Len(fcl) + 1][ColumnOf(circ.recs[k])[1]] = 1

\* the entries of s at the positions P, in increasing order of position
Pick(s, P) ==
    [j \in 1..Cardinality(P) |->
        s[CHOOSE x \in P : Cardinality({y \in P : y < x}) = j - 1]]

\* positions, in the fundamental-cycle enumeration, of the cycles that run
\* through a branch with nonzero capacitance
VariablePositions ==
    {p \in 1..Len(fcl) :
        \E k \in 1..BranchCount :
           /\ circ.recs[k].capacitor # 0
           /\ Straight(fcl[p], circ.recs[k]) \/ Reversed(fcl[p], circ.recs[k])}

\* C14: after seperate_const_variable_cycle_and_loop(kg) every fundamental
\* cycle is in exactly one of const_weight_cycle and variable_weight_cycle,
\* it is in variable_weight_cycle iff one of its branches has nonzero
\* capacitance, and variable_weight_cycle_index is the increasing list of the
\* positions (counted from 0) of the cycles in variable_weight_cycle.
C14_CyclePartition ==
    (SimpleCircuit(circ) /\ pc \in AfterCycles) =>
        /\ part.variable_weight_cycle = Pick(fcl, VariablePositions)
        /\ part.const_weight_cycle = Pick(fcl, (1..Len(fcl)) \ VariablePositions)
        /\ part.variable_weight_cycle_index =
              Pick([p \in 1..Len(fcl) |-> p - 1], VariablePositions)
        /\ \A p \in 1..Len(fcl) :
              /\ SeqContains(part.variable_weight_cycle, fcl[p])
                    # SeqContains(part.const_weight_cycle, fcl[p])
              /\ SeqContains(part.variable_weight_cycle, fcl[p])
                    <=> p \in VariablePositions

\* C14 witness: of two fundamental cycles the first runs through a capacitor
\* and the second does not.
C14_Witness ==
    /\ SimpleCircuit(circ)
    /\ pc = "kvl"
    /\ Len(fcl) = 2
    /\ VariablePositions = {1}
    /\ part.variable_weight_cycle_index = <<0>>
    /\ part.const_weight_cycle = <<fcl[2]>>

\* positions of find_kg_edges_weights_RC after the loop over e and after the
\* loop over a
AfterRowsDeleted == {"rccols", "rcsolve", "rcdone"}
AfterColumnsDeleted == {"rcsolve", "rcdone"}

\* C12: in find_kg_edges_weights_RC(kg) the reduced A and B are the rows of
\* the full system of kg whose index is not a recorded variable-weight cycle
\* index of kg, in their original order: with k such cycles exactly k rows
\* are removed and E - k remain.
C12_RowsRemoved ==
    (ConnectedSimple /\ pc \in AfterRowsDeleted) =>
        LET e == SeqRange(part.variable_weight_cycle_index)
        IN  /\ Arows = np_delete(A, e)
            /\ Brows = np_delete(B, e)
            /\ Cardinality(DOMAIN Arows) =
                  BranchCount - Len(part.variable_weight_cycle_index)

\* columns the full enumeration of kg gives the variable-weight branches of kg
VariableColumns ==
    {get_edge_index(kg, t[1], t[2])[1] : t \in SeqRange(part.variable_weight_edge)}

\* C13: in find_kg_edges_weights_RC(kg) the columns removed from A are the
\* columns of the m variable-weight branches of kg: every row left by the row
\* deletion keeps the columns of all other branches, in their original order,
\* and E - m columns remain.
C13_ColumnsRemoved ==
    (ConnectedSimple /\ pc \in AfterColumnsDeleted) =>
        /\ Acols.ncols = BranchCount - Len(part.variable_weight_edge)
        /\ Acols.rows = [r \in DOMAIN Arows |-> np_delete(Arows[r], VariableColumns)]

====
